---- MODULE Spec2Model ----
(***************************************************************************)
(* gui/colorpicker.py: ColorPickMode and ColorPickPreviewOverlay.          *)
(*                                                                         *)
(* Coordinates.  The overlay stores its pointer position as int(x)+0.5,    *)
(* so every coordinate that _get_area computes with is a multiple of one   *)
(* half.  The model keeps such values in HALF UNITS (v2 = 2*v): a stored   *)
(* position 12.5 is the integer 25.  Event coordinates are floats in the   *)
(* program; the model draws them in half units too, so that the int()      *)
(* truncation of the source is computed and not assumed.  Areas (the       *)
(* tuples handed to queue_draw_area) are in whole pixels, as in the source.*)
(***************************************************************************)
EXTENDS Integers, Sequences, FiniteSets, TLC

VARIABLES
    _overlay,                     \* ColorPickMode._overlay (None or an overlay object)
    _preview_needs_button_press,  \* ColorPickMode._preview_needs_button_press
    _button_press_seen,           \* ColorPickMode._button_press_seen
    active,                       \* host: the mode has been entered and not left
    in_drag,                      \* host: DragMode.in_drag
    brush_color,                  \* app.brush colour (abstract colour value)
    observers,                    \* app.brush.observers (a list)
    display_overlays,             \* tdw.display_overlays (a list)
    alloc,                        \* tdw.get_allocation(): <<width, height>>
    queued,                       \* areas passed to tdw.queue_draw_area, not yet redrawn
    screen,                       \* swatches on screen: set of <<area, colour>>
    heap,                         \* the ColorPickPreviewOverlay objects, by identity
    raised,                       \* an exception escaped a handler
    last                          \* the handler that ran last, and what it did

vars == << _overlay, _preview_needs_button_press, _button_press_seen, active,
           in_drag, brush_color, observers, display_overlays, alloc, queued,
           screen, heap, raised, last >>

----------------------------------------------------------------------------
(* Bounds of the model *)

MaxOverlays == 2      \* overlay objects that can be alive at once
NumColors == 2        \* distinct brush colours
GeomW == 80           \* largest viewport width swept by GeomSpec
GeomH == 110          \* largest viewport height swept by GeomSpec
GeomMargin == 2       \* how far outside the viewport GeomSpec's pointer goes

(* Program constants *)

PREVIEW_SIZE == 70
None == 0             \* the None stored in ColorPickMode._overlay
OtherObserver == 0    \* a callback / overlay in the lists that is not ours
NoArea == << >>       \* the None returned by _get_area

OverlayIds == 1..MaxOverlays
Colors == 1..NumColors
HSV == {"color_h", "color_s", "color_v"}

Blank == [x |-> 1, y |-> 1, color |-> 1, previous_area |-> NoArea]

----------------------------------------------------------------------------
(* The program state as one record, so that a handler is the composition   *)
(* of the calls it makes.  picked / created / drawn are set by the calls   *)
(* of the running handler and copied into `last` when it returns.          *)

Cur ==
    [ _overlay |-> _overlay,
      _preview_needs_button_press |-> _preview_needs_button_press,
      _button_press_seen |-> _button_press_seen,
      active |-> active, in_drag |-> in_drag,
      brush_color |-> brush_color, observers |-> observers,
      display_overlays |-> display_overlays, alloc |-> alloc,
      queued |-> queued, screen |-> screen, heap |-> heap,
      raised |-> raised, picked |-> FALSE, created |-> FALSE, drawn |-> {} ]

RECURSIVE Count(_, _)
Count(seq, e) ==
    IF seq = << >> THEN 0
    ELSE (IF Head(seq) = e THEN 1 ELSE 0) + Count(Tail(seq), e)

Contains(seq, e) == \E i \in 1..Len(seq) : seq[i] = e

(* list.remove(e): drops the first occurrence; the caller checks presence. *)
RECURSIVE ListRemove(_, _)
ListRemove(seq, e) ==
    IF seq = << >> THEN << >>
    ELSE IF Head(seq) = e THEN Tail(seq)
    ELSE << Head(seq) >> \o ListRemove(Tail(seq), e)

(* An object is reachable while the mode or one of the two lists holds it. *)
Referenced(s, id) ==
    \/ s._overlay = id
    \/ Contains(s.observers, id)
    \/ Contains(s.display_overlays, id)

FreeIds(s) == { id \in OverlayIds : ~Referenced(s, id) }

NewId(s) == CHOOSE id \in FreeIds(s) : \A j \in FreeIds(s) : id <= j

(* Unreachable overlay objects are garbage: their storage is blanked.      *)
Collect(s) ==
    [s EXCEPT !.heap = [id \in OverlayIds |->
                          IF Referenced(s, id) THEN s.heap[id] ELSE Blank]]

----------------------------------------------------------------------------
(* ColorPickPreviewOverlay *)

(* int() of a float given in half units: truncation toward zero.           *)
int(v2) == IF v2 >= 0 THEN v2 \div 2 ELSE -((-v2) \div 2)

(* int(x) + 0.5, in half units. *)
StoredCoord(e2) == 2 * int(e2) + 1

(* _get_area without the east and west placements (lines 192-197). *)
_get_area_noEastWest(o, al) ==
    LET size == PREVIEW_SIZE
        offset == size \div 2
        x == o.x
        y == o.y
        w == al[1]
        h == al[2]
    IN  IF x < 0 \/ y < 0 \/ y > 2 * h \/ x > 2 * w
        THEN NoArea
        ELSE LET p == IF y + 2 * size > 2 * h - 2 * offset
                      THEN << x - 2 * offset, y - 2 * (size + offset) >>
                      ELSE << x - 2 * offset, y + 2 * offset >>
             IN  << int(p[1]), int(p[2]), size, size >>

(* _get_area testing only x < 0 and y < 0 on line 184. *)
_get_area_noUpperBound(o, al) ==
    LET size == PREVIEW_SIZE
        offset == size \div 2
        x == o.x
        y == o.y
        w == al[1]
        h == al[2]
    IN  IF x < 0 \/ y < 0
        THEN NoArea
        ELSE LET p == IF y + 2 * size > 2 * h - 2 * offset
                      THEN << x - 2 * offset, y - 2 * (size + offset) >>
                      ELSE IF x < 2 * offset
                      THEN << x + 2 * offset, y - 2 * offset >>
                      ELSE IF x > 2 * w - 2 * offset
                      THEN << x - 2 * (size + offset), y - 2 * offset >>
                      ELSE << x - 2 * offset, y + 2 * offset >>
             IN  << int(p[1]), int(p[2]), size, size >>

_get_area(o, al) ==
    LET size == PREVIEW_SIZE
        offset == size \div 2
        x == o.x
        y == o.y
        w == al[1]
        h == al[2]
    IN  IF x < 0 \/ y < 0 \/ y > 2 * h \/ x > 2 * w
        THEN NoArea
        ELSE LET p == IF y + 2 * size > 2 * h - 2 * offset
                      THEN << x - 2 * offset, y - 2 * (size + offset) >>
                      ELSE IF x < 2 * offset
                      THEN << x + 2 * offset, y - 2 * offset >>
                      ELSE IF x > 2 * w - 2 * offset
                      THEN << x - 2 * (size + offset), y - 2 * offset >>
                      ELSE << x - 2 * offset, y + 2 * offset >>
             IN  << int(p[1]), int(p[2]), size, size >>

(* _queue_tdw_redraw forgetting _previous_area without queueing it. *)
_queue_tdw_redraw_currentOnly(s, id) ==
    LET area == _get_area(s.heap[id], s.alloc)
        s1 == [s EXCEPT !.heap[id].previous_area = NoArea]
    IN  IF area # NoArea
        THEN [s1 EXCEPT !.queued = @ \cup {area}]
        ELSE s1

_queue_tdw_redraw(s, id) ==
    LET prev == s.heap[id].previous_area
        s1 == IF prev # NoArea
              THEN [s EXCEPT !.queued = @ \cup {prev},
                             !.heap[id].previous_area = NoArea]
              ELSE s
        area == _get_area(s1.heap[id], s1.alloc)
    IN  IF area # NoArea
        THEN [s1 EXCEPT !.queued = @ \cup {area}]
        ELSE s1

(* _get_app_brush_color: the brush's current colour. *)
_get_app_brush_color(s) == s.brush_color

(* ColorPickPreviewOverlay.__init__; the new object is NewId(s). *)
ColorPickPreviewOverlay(s, x, y) ==
    LET id == NewId(s)
        s1 == [s EXCEPT !.heap[id] = [x |-> StoredCoord(x),
                                      y |-> StoredCoord(y),
                                      color |-> _get_app_brush_color(s),
                                      previous_area |-> NoArea],
                        !.observers = Append(@, id),
                        !.display_overlays = Append(@, id),
                        !.created = TRUE]
    IN  _queue_tdw_redraw(s1, id)

(* cleanup without the observers.remove of line 136. *)
cleanup_keepsObserver(s, id) ==
    IF ~Contains(s.display_overlays, id)
    THEN [s EXCEPT !.raised = TRUE]
    ELSE _queue_tdw_redraw(
             [s EXCEPT !.display_overlays = ListRemove(@, id)], id)

cleanup(s, id) ==
    IF ~Contains(s.observers, id)
    THEN [s EXCEPT !.raised = TRUE]                       \* ValueError
    ELSE LET s1 == [s EXCEPT !.observers = ListRemove(@, id)]
         IN  IF ~Contains(s1.display_overlays, id)
             THEN [s1 EXCEPT !.raised = TRUE]             \* ValueError
             ELSE LET s2 == [s1 EXCEPT !.display_overlays = ListRemove(@, id)]
                  IN  IF Contains(s2.observers, id)
                         \/ Contains(s2.display_overlays, id)
                      THEN [s2 EXCEPT !.raised = TRUE]    \* AssertionError
                      ELSE _queue_tdw_redraw(s2, id)

move(s, id, x, y) ==
    _queue_tdw_redraw(
        [s EXCEPT !.heap[id].x = StoredCoord(x),
                  !.heap[id].y = StoredCoord(y)], id)

_brush_color_changed_cb(s, id, settings) ==
    IF settings \cap HSV = {}
    THEN s
    ELSE _queue_tdw_redraw(
             [s EXCEPT !.heap[id].color = _get_app_brush_color(s)], id)

paint(s, id) ==
    LET area == _get_area(s.heap[id], s.alloc)
        s1 == IF area # NoArea
              THEN [s EXCEPT !.screen = @ \cup {<< area, s.heap[id].color >>},
                             !.drawn = @ \cup {<< area, s.heap[id].color >>}]
              ELSE s
    IN  [s1 EXCEPT !.heap[id].previous_area = area]

----------------------------------------------------------------------------
(* The application and the host framework (canvasevent, app, tdw).         *)

(* Every callback in app.brush.observers is called with the settings.      *)
RECURSIVE NotifyObservers(_, _, _)
NotifyObservers(s, obs, settings) ==
    IF obs = << >> THEN s
    ELSE NotifyObservers(
             IF Head(obs) = OtherObserver THEN s
             ELSE _brush_color_changed_cb(s, Head(obs), settings),
             Tail(obs), settings)

(* app.pick_color_at_pointer: samples the screen, sets the brush colour to *)
(* the sample c; the brush tells its observers when the colour changed.    *)
pick_color_at_pointer(s, c) ==
    LET s1 == [s EXCEPT !.brush_color = c, !.picked = TRUE]
    IN  IF c # s.brush_color
        THEN NotifyObservers(s1, s1.observers, HSV)
        ELSE s1

(* InteractionMode.enter / leave: the mode becomes, or stops being, the    *)
(* one that receives events.                                               *)
super_enter(s) == [s EXCEPT !.active = TRUE]

super_leave(s) == [s EXCEPT !.active = FALSE]

(* DragMode._force_drag_start: the grab starts, the mode is dragging.      *)
_force_drag_start(s) == [s EXCEPT !.in_drag = TRUE]

(* OneshotDragModeMixin.drag_stop_cb: the interaction ends after one drag. *)
super_drag_stop_cb(s) == [s EXCEPT !.in_drag = FALSE]

(* DragMode.button_press_cb while dragging: nothing the model keeps.       *)
super_button_press_cb(s) == s

(* DragMode.drag_update_cb: nothing the model keeps.                       *)
super_drag_update_cb(s) == s

(* The host calls enter() on a mode that is not active and not dragging.   *)
CanEnter == ~active /\ ~in_drag

(* Pointer events reach the mode while it is active and dragging.          *)
CanDispatch == active /\ in_drag

(* drag_stop_cb is called once for a drag that is under way.               *)
CanStopDrag == in_drag

(* leave() is called on a mode that was entered.                           *)
CanLeave == active

----------------------------------------------------------------------------
(* ColorPickMode *)

_picking(s) ==
    ~(s._preview_needs_button_press /\ ~s._button_press_seen)

(* enter without the _force_drag_start of line 60. *)
enter_noDragStart(s, c) ==
    LET s1 == super_enter(s)
    IN  IF _picking(s1) THEN pick_color_at_pointer(s1, c) ELSE s1

enter(s, c) ==
    LET s1 == super_enter(s)
        s2 == IF _picking(s1) THEN pick_color_at_pointer(s1, c) ELSE s1
    IN  _force_drag_start(s2)

leave(s) ==
    IF s._overlay # None
    THEN LET s1 == cleanup(s, s._overlay)
         IN  IF s1.raised THEN s1
             ELSE super_leave([s1 EXCEPT !._overlay = None])
    ELSE super_leave(s)

button_press_cb(s, c) ==
    LET s1 == [s EXCEPT !._button_press_seen = TRUE]
        s2 == pick_color_at_pointer(s1, c)
    IN  super_button_press_cb(s2)

drag_stop_cb(s) ==
    IF s._overlay # None
    THEN LET s1 == cleanup(s, s._overlay)
         IN  IF s1.raised THEN s1
             ELSE super_drag_stop_cb([s1 EXCEPT !._overlay = None])
    ELSE super_drag_stop_cb(s)

(* drag_update_cb that does not consult _picking(). *)
drag_update_cb_alwaysPicking(s, x, y, c) ==
    LET s1 == pick_color_at_pointer(s, c)
        s2 == IF s1._overlay = None
              THEN [ColorPickPreviewOverlay(s1, x, y)
                        EXCEPT !._overlay = NewId(s1)]
              ELSE s1
        s3 == IF s2._overlay # None
              THEN move(s2, s2._overlay, x, y)
              ELSE s2
    IN  super_drag_update_cb(s3)

(* drag_update_cb without the `_overlay is None` test of line 92. *)
drag_update_cb_alwaysCreates(s, x, y, c) ==
    LET picking == _picking(s)
        s1 == IF picking THEN pick_color_at_pointer(s, c) ELSE s
        s2 == IF picking
              THEN [ColorPickPreviewOverlay(s1, x, y)
                        EXCEPT !._overlay = NewId(s1)]
              ELSE s1
        s3 == IF s2._overlay # None
              THEN move(s2, s2._overlay, x, y)
              ELSE s2
    IN  super_drag_update_cb(s3)

drag_update_cb(s, x, y, c) ==
    LET picking == _picking(s)
        s1 == IF picking THEN pick_color_at_pointer(s, c) ELSE s
        s2 == IF picking /\ s1._overlay = None
              THEN [ColorPickPreviewOverlay(s1, x, y)
                        EXCEPT !._overlay = NewId(s1)]
              ELSE s1
        s3 == IF s2._overlay # None
              THEN move(s2, s2._overlay, x, y)
              ELSE s2
    IN  super_drag_update_cb(s3)

----------------------------------------------------------------------------
(* The tdw's redraw: the queued areas are cleared (everything, when the    *)
(* whole widget is exposed), every overlay in display_overlays paints.     *)

RECURSIVE PaintOverlays(_, _)
PaintOverlays(s, ovs) ==
    IF ovs = << >> THEN s
    ELSE PaintOverlays(
             IF Head(ovs) = OtherObserver THEN s ELSE paint(s, Head(ovs)),
             Tail(ovs))

expose(s, whole) ==
    LET s1 == [s EXCEPT !.screen = IF whole THEN {}
                                   ELSE { p \in @ : p[1] \notin s.queued },
                        !.queued = {}]
    IN  PaintOverlays(s1, s1.display_overlays)

----------------------------------------------------------------------------
(* Actions: one per handler the host calls.                                *)

PrevBefore ==
    IF _overlay # None THEN heap[_overlay].previous_area ELSE NoArea

Commit(s0, op, settings) ==
    LET s == Collect(s0)
    IN  /\ _overlay' = s._overlay
        /\ _preview_needs_button_press' = s._preview_needs_button_press
        /\ _button_press_seen' = s._button_press_seen
        /\ active' = s.active
        /\ in_drag' = s.in_drag
        /\ brush_color' = s.brush_color
        /\ observers' = s.observers
        /\ display_overlays' = s.display_overlays
        /\ alloc' = s.alloc
        /\ queued' = s.queued
        /\ screen' = s.screen
        /\ heap' = s.heap
        /\ raised' = s.raised
        /\ last' = [ op |-> op, picked |-> s.picked, created |-> s.created,
                     drawn |-> s.drawn, had_overlay |-> (_overlay # None),
                     prev_before |-> PrevBefore, settings |-> settings ]

(* The events of the model: pointer positions in half units, for the       *)
(* viewport SpecViewport.                                                  *)
SpecViewport == << 200, 160 >>

PointerEvents ==
    { << 200, 40 >>,     \* (100.0, 20.0): interior
      << 390, 41 >>,     \* (195.0, 20.5): near the right edge
      << 200, 300 >>,    \* (100.0, 150.0): near the bottom edge
      << -1, 40 >>,      \* (-0.5, 20.0): int() brings it to column 0, at the left edge
      << -3, 40 >> }     \* (-1.5, 20.0): outside

NotifySettings == { {"color_v"}, {"radius_logarithmic"} }

Enter ==
    /\ CanEnter
    /\ \E c \in Colors : Commit(enter(Cur, c), "enter", {})

Leave ==
    /\ CanLeave
    /\ Commit(leave(Cur), "leave", {})

ButtonPress ==
    /\ CanDispatch
    /\ \E c \in Colors : Commit(button_press_cb(Cur, c), "button_press_cb", {})

DragUpdateAt(e, c) ==
    /\ CanDispatch
    /\ _picking(Cur) => FreeIds(Cur) # {}
    /\ Commit(drag_update_cb(Cur, e[1], e[2], c), "drag_update_cb", {})

DragUpdate == \E e \in PointerEvents, c \in Colors : DragUpdateAt(e, c)

DragStop ==
    /\ CanStopDrag
    /\ Commit(drag_stop_cb(Cur), "drag_stop_cb", {})

(* A brush setting changes outside the mode; observers are notified.       *)
BrushNotify ==
    \E c \in Colors, settings \in NotifySettings :
        /\ (settings \cap HSV = {}) <=> (c = brush_color)
        /\ Commit(NotifyObservers([Cur EXCEPT !.brush_color = c],
                                  observers, settings),
                  "notify", settings)

Expose ==
    \E whole \in BOOLEAN :
        /\ whole \/ queued # {}
        /\ Commit(expose(Cur, whole), "expose", {})

(* ColorPickMode.__init__, with ('ignore_modifiers' in kwds) = ~needs, in  *)
(* an application whose tdw has the allocation al.                         *)
Constructed(needs, al) ==
    [ _overlay |-> None,
      _preview_needs_button_press |-> needs,
      _button_press_seen |-> FALSE,
      active |-> FALSE, in_drag |-> FALSE,
      brush_color |-> 1,
      observers |-> << OtherObserver >>,
      display_overlays |-> << OtherObserver >>,
      alloc |-> al, queued |-> {}, screen |-> {},
      heap |-> [id \in OverlayIds |-> Blank],
      raised |-> FALSE, picked |-> FALSE, created |-> FALSE, drawn |-> {} ]

StateIs(s0, l) ==
    LET s == Collect(s0)
    IN  /\ _overlay = s._overlay
        /\ _preview_needs_button_press = s._preview_needs_button_press
        /\ _button_press_seen = s._button_press_seen
        /\ active = s.active
        /\ in_drag = s.in_drag
        /\ brush_color = s.brush_color
        /\ observers = s.observers
        /\ display_overlays = s.display_overlays
        /\ alloc = s.alloc
        /\ queued = s.queued
        /\ screen = s.screen
        /\ heap = s.heap
        /\ raised = s.raised
        /\ last = l

Init ==
    \E needs \in BOOLEAN :
        StateIs(Constructed(needs, SpecViewport),
                [ op |-> "init", picked |-> FALSE, created |-> FALSE,
                  drawn |-> {}, had_overlay |-> FALSE,
                  prev_before |-> NoArea, settings |-> {} ])

Next ==
    \/ Enter
    \/ Leave
    \/ ButtonPress
    \/ DragUpdate
    \/ DragStop
    \/ BrushNotify
    \/ Expose

Spec == Init /\ [][Next]_vars

----------------------------------------------------------------------------
(* The geometry specification.  The overlay has just been created by the   *)
(* first drag_update_cb of a mode constructed with ignore_modifiers, at     *)
(* every pointer position of a grid that covers the viewport and a margin  *)
(* around it, with every picked colour; from there the tdw is redrawn.     *)

GeomViewports ==
    { << GeomW, GeomH >>, << 40, 106 >>, << 36, 30 >>, << 0, 0 >> }

GeomEvents(al) ==
    { << 2 * i, 2 * j >> : i \in (0 - GeomMargin)..(al[1] + GeomMargin),
                           j \in (0 - GeomMargin)..(al[2] + GeomMargin) }

GeomInit ==
    \E al \in GeomViewports :
        \E e \in GeomEvents(al), c \in Colors :
            StateIs(drag_update_cb(enter(Constructed(FALSE, al), 1),
                                   e[1], e[2], c),
                    [ op |-> "drag_update_cb", picked |-> TRUE,
                      created |-> TRUE, drawn |-> {}, had_overlay |-> FALSE,
                      prev_before |-> NoArea, settings |-> {} ])

GeomNext == Expose

GeomSpec == GeomInit /\ [][GeomNext]_vars

----------------------------------------------------------------------------
(* Properties *)

(* The overlays of the mode that a list holds. *)
OursIn(seq) == { id \in OverlayIds : Contains(seq, id) }

(* The pixel column / row of a stored coordinate k + 0.5. *)
Pixel(v2) == (v2 - 1) \div 2

(* The stored pointer position of overlay o lies outside the viewport:     *)
(* x < 0, y < 0, x > width or y > height, for x = column + 0.5.            *)
PointerOutside(o, al) ==
    \/ Pixel(o.x) < 0
    \/ Pixel(o.y) < 0
    \/ Pixel(o.x) >= al[1]
    \/ Pixel(o.y) >= al[2]

(* Truncation toward zero of m + 0.5, for an integer m. *)
TruncHalf(m) == IF m >= 0 THEN m ELSE m + 1

(* The reference placement for the pointer (k + 0.5, j + 0.5) in a w x h   *)
(* viewport, with size = 70 and offset = 35.                               *)
RefArea(k, j, w, h) ==
    IF j + 70 >= h - 35
    THEN << TruncHalf(k - 35), TruncHalf(j - 105), 70, 70 >>      \* north
    ELSE IF k <= 34
    THEN << TruncHalf(k + 35), TruncHalf(j - 35), 70, 70 >>       \* east
    ELSE IF k >= w - 35
    THEN << TruncHalf(k - 105), TruncHalf(j - 35), 70, 70 >>      \* west
    ELSE << TruncHalf(k - 35), TruncHalf(j + 35), 70, 70 >>       \* south

ColorNotified == last.op = "notify" /\ last.settings \cap HSV # {}

(* C1: once the mode has ended (drag_stop_cb or leave has run, in either   *)
(* order), no overlay of the mode is registered: none of its callbacks is  *)
(* in app.brush.observers and none of its overlays in tdw.display_overlays.*)
C1_ReleasedWhenEnded ==
    ~(active /\ in_drag) =>
        /\ OursIn(observers) = {}
        /\ OursIn(display_overlays) = {}
        /\ _overlay = None

(* leave() ran on a mode that had an overlay, with no drag_stop_cb before. *)
C1_Witness ==
    /\ last.op = "leave"
    /\ last.had_overlay
    /\ in_drag
    /\ ~active

(* C2: for a pointer inside the viewport the square returned by _get_area  *)
(* lies entirely within [0, width] x [0, height].                          *)
C2_WithinBounds ==
    \A id \in OursIn(display_overlays) :
        LET a == _get_area(heap[id], alloc)
        IN  ~PointerOutside(heap[id], alloc) =>
                /\ a # NoArea
                /\ a[1] >= 0
                /\ a[2] >= 0
                /\ a[1] + a[3] <= alloc[1]
                /\ a[2] + a[4] <= alloc[2]

(* C3: for a pointer inside the viewport the area that _get_area returns,  *)
(* that a move or colour notification queues and that paint draws and      *)
(* remembers is the reference placement of (pointer, viewport) alone,      *)
(* whatever the overlay's colour, _previous_area and history.              *)
C3_AreaIsReference ==
    \A id \in OursIn(display_overlays) :
        LET o == heap[id]
            ref == RefArea(Pixel(o.x), Pixel(o.y), alloc[1], alloc[2])
        IN  ~PointerOutside(o, alloc) =>
                /\ _get_area(o, alloc) = ref
                /\ (last.op = "drag_update_cb" \/ ColorNotified)
                       => ref \in queued
                /\ last.op = "expose"
                       => /\ o.previous_area = ref
                          /\ << ref, o.color >> \in last.drawn

(* An overlay placed west of a pointer near the right edge was recoloured  *)
(* and repainted.                                                          *)
C3_Witness ==
    /\ last.op = "expose"
    /\ _overlay # None
    /\ ~PointerOutside(heap[_overlay], alloc)
    /\ Pixel(heap[_overlay].x) >= alloc[1] - 35
    /\ Pixel(heap[_overlay].y) + 70 < alloc[2] - 35
    /\ heap[_overlay].color # 1
    /\ heap[_overlay].previous_area
           = << TruncHalf(Pixel(heap[_overlay].x) - 105),
                TruncHalf(Pixel(heap[_overlay].y) - 35), 70, 70 >>

(* C4: while an overlay exists, a pointer move and a colour notification   *)
(* leave queued both the area last painted (when set) and the overlay's    *)
(* current area; every swatch on screen that is not the overlay's current  *)
(* picture has a redraw pending.                                           *)
C4_RedrawCovers ==
    /\ (last.had_overlay /\ _overlay # None
            /\ (last.op = "drag_update_cb" \/ ColorNotified)) =>
           LET area == _get_area(heap[_overlay], alloc)
           IN  /\ last.prev_before # NoArea => last.prev_before \in queued
               /\ area # NoArea => area \in queued
    /\ \A p \in screen :
           \/ p[1] \in queued
           \/ \E id \in OursIn(display_overlays) :
                  p = << _get_area(heap[id], alloc), heap[id].color >>

(* A painted swatch was left behind by a move to another place. *)
C4_Witness ==
    /\ last.op = "drag_update_cb"
    /\ last.had_overlay
    /\ _overlay # None
    /\ last.prev_before # NoArea
    /\ last.prev_before # _get_area(heap[_overlay], alloc)
    /\ \E p \in screen : p[1] = last.prev_before

C6_PickGating ==
    [][ /\ _button_press_seen => _button_press_seen'
        /\ (~_button_press_seen /\ _button_press_seen')
               => (last'.op = "button_press_cb")
        /\ (last'.op = "button_press_cb")
               => (last'.picked /\ _button_press_seen')
        /\ (last'.op \in {"enter", "drag_update_cb"}
                /\ _preview_needs_button_press /\ ~_button_press_seen)
               => (~last'.picked /\ ~last'.created /\ _overlay' = None)
        /\ (last'.op \in {"enter", "drag_update_cb"}
                /\ ~_preview_needs_button_press')
               => last'.picked
      ]_vars

(* A pointer move before any button press, in a mode that needs one. *)
C6_Witness ==
    /\ last.op = "drag_update_cb"
    /\ _preview_needs_button_press
    /\ ~_button_press_seen
    /\ ~last.picked

(* C7: _get_area returns None exactly when the stored pointer position is  *)
(* outside the viewport, and a repaint then draws nothing and remembers no *)
(* area; in every other case a square is drawn and remembered.             *)
C7_ShownIffInside ==
    \A id \in OursIn(display_overlays) :
        LET o == heap[id]
            out == PointerOutside(o, alloc)
        IN  /\ (_get_area(o, alloc) = NoArea) <=> out
            /\ last.op = "expose" =>
                   /\ (o.previous_area = NoArea) <=> out
                   /\ (\A p \in last.drawn : p[2] # o.color) <=> out
                   /\ \A p \in last.drawn : Len(p[1]) = 4

(* An overlay whose pointer is just beyond the right edge was repainted. *)
C7_Witness ==
    /\ last.op = "expose"
    /\ _overlay # None
    /\ Pixel(heap[_overlay].x) = alloc[1]
    /\ Pixel(heap[_overlay].y) \in 0..(alloc[2] - 1)
    /\ last.drawn = {}

(* C8: the mode owns at most one overlay; _overlay is not None exactly     *)
(* when that overlay's callback is once in app.brush.observers and the     *)
(* overlay once in tdw.display_overlays; no other overlay of the mode is   *)
(* registered; drag_update_cb creates none while one exists.               *)
C8_OneOverlay ==
    /\ (_overlay = None) <=> (OursIn(observers) = {})
    /\ (_overlay = None) <=> (OursIn(display_overlays) = {})
    /\ _overlay # None =>
           /\ OursIn(observers) = {_overlay}
           /\ OursIn(display_overlays) = {_overlay}
           /\ Count(observers, _overlay) = 1
           /\ Count(display_overlays, _overlay) = 1
    /\ (last.op = "drag_update_cb" /\ last.had_overlay) => ~last.created

(* A pointer move in a mode that already had its overlay. *)
C8_Witness ==
    /\ last.op = "drag_update_cb"
    /\ last.had_overlay
    /\ last.picked
    /\ _overlay # None

====
